---- MODULE Spec2Model ----
(***************************************************************************)
(* Model of the RRDP ingestion engine (src/src/fetch/rrdp.rs, RrdpState):  *)
(* create, update, update_from_deltas, update_from_snapshot and the        *)
(* helpers that maintain the object store `elements` and the derived       *)
(* `manifests` map; of the partitioner (src/src/erik.rs,                   *)
(* ResolvedErikIndex::from_content) with the on-wire index built from it;  *)
(* of the codecs of ErikIndex and ErikPartition (src/src/erik.rs); and of  *)
(* the named-information route (src/src/main.rs).                          *)
(***************************************************************************)
EXTENDS Integers, Sequences, FiniteSets, TLC

----------------------------------------------------------------------------
(* Bounds of the model *)

\* RRDP serials range over 1..MaxSerial
MaxSerial == 3
\* number of elements in one snapshot file, and of delta elements in one poll
MaxElements == 2
\* number of manifests in the content that from_content is given
MaxRefs == 3

----------------------------------------------------------------------------
(* Value domains *)

\* the byte strings that the upstream publishes: 1 and 2 are manifests, 3 is
\* not the encoding of a manifest, 4 is a manifest whose EE certificate has
\* no authority key identifier
Data == {1, 2, 3, 4}
Sessions == {"s1", "s2"}
Serials == 1 .. MaxSerial
\* Option<String>: None or an entity tag
Etags == {"none", "e1"}
MftUri == "rsync://h/r/a.mft"
CerUri == "rsync://h/r/b.cer"
Uris == {MftUri, CerUri}

\* rrdp::Hash::from_data: SHA-256, modelled as an injective map of the data
Hash(d) == (d * 7 + 3) % 16
Hashes == {Hash(d) : d \in Data}

\* str::ends_with(".mft") on the publication URI
EndsWithMft(uri) == uri = MftUri

\* Manifest::decode(data, false) succeeds
MftDecodes(d) == d # 3
\* mft.cert().authority_key_identifier() is Some
MftHasAki(d) == d # 4
\* mft.cert().authority_key_identifier(): both byte strings are manifests of
\* the same CA
MftAki(d) == 122
\* mft.manifest_number()
MftNumber(d) == d
\* mft.this_update()
MftThisUpdate(d) == 10 - d
\* mft.is_stale()
MftIsStale(d) == d = 1
\* data.len()
DataLen(d) == d + 2

Akis == {MftAki(d) : d \in Data}

NoEntry == [uri |-> "none", data |-> -1]
\* a usize, a u128 or a length in bytes, as <<n \div 65536, n % 65536>>
Usize(n) == <<n \div 65536, n % 65536>>

NoRef == [hash |-> -1, size |-> Usize(0), aki |-> -1, manifest_number |-> -1,
          this_update |-> -1, locations |-> "none"]
NoFile == [session_id |-> "none", serial |-> 0, deltas |-> {}]
NoSnapshot == [session_id |-> "none", serial |-> 0, elements |-> <<>>]
NoElement == [kind |-> "none", uri |-> "none", hash |-> -1, data |-> -1]

\* struct RepoContentElement
RepoContentElement(uri, data) == [uri |-> uri, data |-> data]

\* no bytes at hand, and no decoder result
NoWire == [kind |-> "none", bytes |-> <<>>]
NoValue == [ok |-> FALSE, value |-> <<>>]

\* no request is being served
NoRequest == [alg |-> "none", val |-> [valid |-> FALSE, len |-> 0, digest |-> -1]]
NoResponse == [status |-> 0, body |-> -1]

\* Option<ResolvedErikIndex>::None
NoIndex == [index_scope |-> "none", index_time |-> -1, partitions |-> <<>>]

EmptyElements == [h \in Hashes |-> NoEntry]
EmptyManifests == [a \in Akis |-> NoRef]

\* HashMap::contains_key
ContainsKey(map, k) == k \in DOMAIN map /\ map[k] # NoEntry
ElementKeys(map) == {k \in DOMAIN map : map[k] # NoEntry}
ManifestKeys(map) == {a \in DOMAIN map : map[a] # NoRef}

----------------------------------------------------------------------------
(* RepoContentElement::try_manifest_ref *)

ManifestRefNew(hash, size, aki, manifest_number, this_update, location) ==
    [hash |-> hash, size |-> size, aki |-> aki,
     manifest_number |-> manifest_number, this_update |-> this_update,
     locations |-> location]

\* a try_manifest_ref that does not look at the publication URI
try_manifest_ref_any_uri(rce, accept_stale) ==
    IF ~MftDecodes(rce.data) \/ ~MftHasAki(rce.data)
    THEN NoRef
    ELSE ManifestRefNew(Hash(rce.data), Usize(DataLen(rce.data)),
                        MftAki(rce.data), MftNumber(rce.data),
                        MftThisUpdate(rce.data), rce.uri)

\* Ok(ManifestRef) or NoRef for Err
try_manifest_ref(rce, accept_stale) ==
    IF EndsWithMft(rce.uri)
    THEN IF ~MftDecodes(rce.data) \/ ~MftHasAki(rce.data)
         THEN NoRef
         ELSE IF ~accept_stale /\ MftIsStale(rce.data)
              THEN NoRef
              ELSE ManifestRefNew(Hash(rce.data), Usize(DataLen(rce.data)),
                                  MftAki(rce.data), MftNumber(rce.data),
                                  MftThisUpdate(rce.data), rce.uri)
    ELSE NoRef

----------------------------------------------------------------------------
(* Files served by the upstream.  The notify URI resolves either to a path  *)
(* on disk (FetchMapper disk mapping) or to the remote URI.  The explored   *)
(* inputs are bounded per kind of source: a disk fixture publishes the      *)
(* three objects below and lists the latest delta only; a second disk      *)
(* fixture publishes a manifest next to bytes from which no manifest can    *)
(* be extracted; a remote server publishes the first object and lists any   *)
(* set of deltas.                                                           *)

\* the published objects: two successive manifests at one URI, and the bytes
\* of the first one published at a second URI
Objects(source) ==
    IF source = "file"
    THEN {RepoContentElement(MftUri, 1), RepoContentElement(MftUri, 2),
          RepoContentElement(CerUri, 1)}
    ELSE IF source = "file_invalid"
    THEN {RepoContentElement(MftUri, 1), RepoContentElement(MftUri, 3),
          RepoContentElement(MftUri, 4)}
    ELSE {RepoContentElement(MftUri, 1)}

\* the digests that update and withdraw elements name: those of the two
\* manifests; the deltas of the fixture with invalid manifests only publish
ReferencedHashes(source) ==
    IF source = "file_invalid" THEN {} ELSE {Hash(1), Hash(2)}

\* rrdp::DeltaElement
DeltaElements(source) ==
    {[kind |-> "publish", uri |-> o.uri, hash |-> -1, data |-> o.data] :
        o \in Objects(source)}
    \cup {[kind |-> "update", uri |-> o.uri, hash |-> h, data |-> o.data] :
        o \in Objects(source), h \in ReferencedHashes(source)}
    \cup {[kind |-> "withdraw", uri |-> "none", hash |-> h, data |-> -1] :
        h \in ReferencedHashes(source)}

SeqsUpTo(S, n) == UNION {[1 .. k -> S] : k \in 0 .. n}

\* rrdp::Snapshot named by notification file nf: it carries the session and
\* serial of nf (RFC 8182) and the publish elements in file order
Snapshots(source, nf) ==
    {[session_id |-> nf.session_id, serial |-> nf.serial, elements |-> els] :
        els \in SeqsUpTo(Objects(source), MaxElements)}

\* rrdp::NotificationFile: session, serial and the serials of the listed
\* deltas (the file lists them in no particular order)
NotificationFiles(source) ==
    IF source \in {"file", "file_invalid"}
    THEN {[session_id |-> s, serial |-> n, deltas |-> {n}] :
            s \in Sessions, n \in Serials}
    ELSE [session_id : Sessions, serial : Serials, deltas : SUBSET Serials]

\* FetchResponse::Data { etag }: a file read yields no entity tag
ResponseEtags(source) ==
    IF source \in {"file", "file_invalid"} THEN {"none"} ELSE Etags

----------------------------------------------------------------------------
(* Helpers of RrdpState *)

\* a sort of the listed serials in descending order
RECURSIVE sort_deltas_descending(_)
sort_deltas_descending(S) ==
    IF S = {} THEN <<>>
    ELSE LET m == CHOOSE x \in S : \A y \in S : x >= y
         IN <<m>> \o sort_deltas_descending(S \ {m})

\* NotificationFile::sort_deltas: the listed serials in ascending order
RECURSIVE sort_deltas(_)
sort_deltas(S) ==
    IF S = {} THEN <<>>
    ELSE LET m == CHOOSE x \in S : \A y \in S : x <= y
         IN <<m>> \o sort_deltas(S \ {m})

\* NotificationFile::sort_and_verify_deltas(None): sorts the deltas and
\* reports whether the sorted serials have no gap between neighbours
sort_and_verify_deltas(notification) ==
    LET sorted == sort_deltas(notification.deltas)
    IN \A i \in 1 .. (Len(sorted) - 1) : sorted[i] + 1 = sorted[i + 1]

\* an iteration over the deltas in an order other than the sorted one
deltas_unsorted(notification) == sort_deltas_descending(notification.deltas)

\* notification_file.deltas() after sort_and_verify_deltas sorted the list
\* in place
deltas_sorted(notification) == sort_deltas(notification.deltas)

\* HashMap::insert
Insert(map, k, v) == [map EXCEPT ![k] = v]

\* elements_from_snapshot: collect() of (Hash::from_data(el.data), el) pairs
\* in file order, a later pair replacing an earlier one with the same key
RECURSIVE CollectElements(_, _)
CollectElements(els, acc) ==
    IF els = <<>> THEN acc
    ELSE CollectElements(Tail(els),
            Insert(acc, Hash(Head(els).data),
                   RepoContentElement(Head(els).uri, Head(els).data)))

elements_from_snapshot(snap) == CollectElements(snap.elements, EmptyElements)

\* the manifest refs that the values of `els` yield for AKI a
RefsForAki(els, a) ==
    {r \in {try_manifest_ref(els[k], TRUE) : k \in ElementKeys(els)} :
        r # NoRef /\ r.aki = a}

\* manifests_from_elements: collect() of (aki, ref) pairs over values() of
\* the HashMap; the iteration order of a HashMap is unspecified, so for an
\* AKI with several refs any one of them may be the one that is kept.
\* The set of maps that the call can return.
manifests_from_elements(els) ==
    {m \in [Akis -> {NoRef} \cup UNION {RefsForAki(els, a) : a \in Akis}] :
        \A a \in Akis :
            IF RefsForAki(els, a) = {} THEN m[a] = NoRef
            ELSE m[a] \in RefsForAki(els, a)}

\* an add_new_elements that replaces the store by the new elements
add_new_elements_replace(cur, new) == new

\* an add_new_elements that uses insert(hash, rce)
add_new_elements_insert(cur, new) ==
    [h \in Hashes |-> IF new[h] # NoEntry THEN new[h] ELSE cur[h]]

\* add_new_elements: entry(hash).or_insert(rce) for every new element
add_new_elements(cur, new) ==
    [h \in Hashes |-> IF cur[h] # NoEntry THEN cur[h] ELSE new[h]]

\* an add_new_manifests that inserts every new ref
add_new_manifests_always(cur, new) ==
    [a \in Akis |-> IF new[a] = NoRef THEN cur[a] ELSE new[a]]

\* add_new_manifests: insert when the AKI is absent or the existing
\* manifest_number is smaller than the new one
add_new_manifests(cur, new) ==
    [a \in Akis |->
        IF new[a] = NoRef THEN cur[a]
        ELSE IF cur[a] # NoRef
             THEN IF cur[a].manifest_number < new[a].manifest_number
                  THEN new[a] ELSE cur[a]
             ELSE new[a]]

----------------------------------------------------------------------------
(* State *)

VARIABLES
    fetch_mapper,       \* RrdpState.fetch_mapper: how the notify URI resolves
    pc,                 \* position of the engine: "uninit", "idle", inside update, "done"
    session_id,         \* RrdpState.session_id
    serial,             \* RrdpState.serial
    etag,               \* RrdpState.etag
    elements,           \* RrdpState.elements, the object store B
    manifests,          \* RrdpState.manifests
    response_etag,      \* update: the etag of the notification response
    notification_file,  \* update: the notification file of the running poll
    deltas,             \* update_from_deltas: the sorted delta serials
    delta_idx,          \* update_from_deltas: number of deltas fetched so far
    new_elements,       \* update_from_deltas: the staging map
    el,                 \* update_from_deltas: the delta element processed last
    el_count,           \* number of delta elements processed in this poll
    snapshot,           \* update_from_snapshot: the parsed snapshot
    applied,            \* the (uri, data) of the Publish/Update elements processed
    route,              \* the path the running poll took
    result,             \* what create/update returned
    erik_pc,            \* from_content: "off", inside the loop, or "done"
    content_manifests,  \* from_content: the values of content.manifests() iterated so far
    partitions,         \* from_content: the local map of partitions
    index,              \* from_content: the returned Option<ResolvedErikIndex>
    request,            \* named_information: the (alg, val) of the request served
    response,           \* named_information: the status and body returned
    codec_pc,           \* codec: "off", or how far the bytes at hand have come
    wire_in,            \* codec: the encoded bytes handed to a decoder
    decoded,            \* codec: the Result of the decoder
    wire_out            \* codec: the bytes an encoder produced

vars == <<fetch_mapper, pc, session_id, serial, etag, elements, manifests,
          response_etag, notification_file, deltas, delta_idx, new_elements,
          el, el_count, snapshot, applied, route, result,
          erik_pc, content_manifests, partitions, index,
          request, response, codec_pc, wire_in, decoded, wire_out>>

rrdp_state == <<session_id, serial, etag, elements, manifests>>
erik_vars == <<erik_pc, content_manifests, partitions, index>>
http_vars == <<request, response>>
codec_vars == <<codec_pc, wire_in, decoded, wire_out>>
locals == <<response_etag, notification_file, deltas, delta_idx,
            new_elements, el, el_count, snapshot, applied>>

Init ==
    /\ fetch_mapper \in {"file", "uri", "file_invalid"}
    /\ pc = "uninit"
    /\ session_id = "none"
    /\ serial = 0
    /\ etag = "none"
    /\ elements = EmptyElements
    /\ manifests = EmptyManifests
    /\ response_etag = "none"
    /\ notification_file = NoFile
    /\ deltas = <<>>
    /\ delta_idx = 0
    /\ new_elements = EmptyElements
    /\ el = NoElement
    /\ el_count = 0
    /\ snapshot = NoSnapshot
    /\ applied = {}
    /\ route = "none"
    /\ result = "none"
    /\ erik_pc = "off"
    /\ content_manifests = {}
    /\ partitions = <<>>
    /\ index = NoIndex
    /\ request = NoRequest
    /\ response = NoResponse
    /\ codec_pc = "off"
    /\ wire_in = NoWire
    /\ decoded = NoValue
    /\ wire_out = NoWire

----------------------------------------------------------------------------
(* RrdpState::create *)

\* the notification file or the snapshot cannot be fetched or parsed
create_err ==
    /\ pc = "uninit"
    /\ result' = "err"
    /\ UNCHANGED <<erik_vars, http_vars, codec_vars, fetch_mapper, pc, rrdp_state, locals, route>>

create ==
    /\ pc = "uninit"
    /\ \E new_etag \in ResponseEtags(fetch_mapper),
          nf \in NotificationFiles(fetch_mapper) :
        \E snap \in Snapshots(fetch_mapper, nf) :
         \E mfts \in manifests_from_elements(elements_from_snapshot(snap)) :
            /\ session_id' = nf.session_id
            /\ serial' = nf.serial
            /\ etag' = new_etag
            /\ elements' = elements_from_snapshot(snap)
            /\ manifests' = mfts
            /\ response_etag' = new_etag
            /\ notification_file' = nf
            /\ snapshot' = snap
    /\ route' = "create"
    /\ result' = "created"
    /\ pc' = "done"
    /\ UNCHANGED <<erik_vars, http_vars, codec_vars, fetch_mapper, deltas, delta_idx, new_elements, el,
                   el_count, applied>>

----------------------------------------------------------------------------
(* RrdpState::update *)

\* get_notification_file fails: fetch or parse error
update_err ==
    /\ pc = "idle"
    /\ route' = "notification_err"
    /\ result' = "err"
    /\ pc' = "done"
    /\ UNCHANGED <<erik_vars, http_vars, codec_vars, fetch_mapper, rrdp_state, locals>>

\* an UnModified arm that forgets the stored etag
update_unmodified_clears_etag ==
    /\ pc = "idle"
    /\ fetch_mapper = "uri"
    /\ route' = "unmodified"
    /\ result' = "ok_false"
    /\ pc' = "done"
    /\ etag' = "none"
    /\ UNCHANGED <<erik_vars, http_vars, codec_vars, fetch_mapper, session_id, serial, elements, manifests,
                   locals>>

\* NotificationFileResponse::UnModified => Ok(false)
update_unmodified ==
    /\ pc = "idle"
    /\ fetch_mapper = "uri"
    /\ route' = "unmodified"
    /\ result' = "ok_false"
    /\ pc' = "done"
    /\ UNCHANGED <<erik_vars, http_vars, codec_vars, fetch_mapper, rrdp_state, locals>>

\* an update that keeps the stored etag
StoredEtagKeepsOld(old, new) == old

\* `self.etag = etag`: the etag of the response replaces the stored one
StoredEtag(old, new) == new

\* a same-state test with the session comparison inverted
SameStateOtherSession(sid, ser, nf) == sid # nf.session_id /\ ser = nf.serial

\* the notification file names the session and serial that are stored
SameState(sid, ser, nf) == sid = nf.session_id /\ ser = nf.serial

\* NotificationFileResponse::Notification: store the etag, then dispatch
update_notification ==
    /\ pc = "idle"
    /\ \E new_etag \in ResponseEtags(fetch_mapper),
          nf \in NotificationFiles(fetch_mapper) :
        /\ etag' = StoredEtag(etag, new_etag)
        /\ response_etag' = new_etag
        /\ notification_file' = nf
        /\ IF SameState(session_id, serial, nf)
           THEN /\ route' = "same"
                /\ result' = "ok_false"
                /\ pc' = "done"
                /\ UNCHANGED deltas
           ELSE IF session_id # nf.session_id
           THEN /\ route' = "session_change"
                /\ pc' = "snapshot"
                /\ UNCHANGED <<result, deltas>>
           ELSE IF ~sort_and_verify_deltas(nf)
           THEN /\ route' = "fallback_gap"
                /\ pc' = "snapshot"
                /\ UNCHANGED <<result, deltas>>
           ELSE /\ route' = "deltas"
                /\ pc' = "deltas"
                /\ deltas' = deltas_sorted(nf)
                /\ UNCHANGED result
    /\ UNCHANGED <<erik_vars, http_vars, codec_vars, fetch_mapper, session_id, serial, elements, manifests,
                   delta_idx, new_elements, el, el_count, snapshot, applied>>

----------------------------------------------------------------------------
(* RrdpState::update_from_deltas *)

\* the key under which a Publish element is staged: Hash::from_data(data)
PublishKey(e) == Hash(e.data)

\* the key under which an Update element is staged: the hash that
\* update_element.unpack() returns, i.e. the digest of the replaced object
UpdateKey(e) == e.hash

\* a sanity check that looks at the object store only
KnownInStoreOnly(cur, staged, h) == ContainsKey(cur, h)

\* the sanity check of Update and Withdraw elements
Known(cur, staged, h) == ContainsKey(cur, h) \/ ContainsKey(staged, h)

\* get_delta_file fails: update_from_deltas returns Err, update falls back
get_delta_file_err ==
    /\ pc = "deltas"
    /\ delta_idx < Len(deltas)
    /\ route' = "fallback_fetch"
    /\ pc' = "snapshot"
    /\ new_elements' = EmptyElements
    /\ applied' = {}
    /\ UNCHANGED <<erik_vars, http_vars, codec_vars, fetch_mapper, rrdp_state, response_etag, notification_file,
                   deltas, delta_idx, el, el_count, snapshot, result>>

\* get_delta_file of the next delta of the sorted list
get_delta_file ==
    /\ pc = "deltas"
    /\ delta_idx < Len(deltas)
    /\ delta_idx' = delta_idx + 1
    /\ pc' = "in_delta"
    /\ UNCHANGED <<erik_vars, http_vars, codec_vars, fetch_mapper, rrdp_state, response_etag, notification_file,
                   deltas, new_elements, el, el_count, snapshot, applied, route,
                   result>>

\* one iteration of `for el in delta.into_elements()`
delta_element ==
    /\ pc = "in_delta"
    /\ el_count < MaxElements
    /\ el_count' = el_count + 1
    /\ \E e \in DeltaElements(fetch_mapper) :
        /\ el' = e
        /\ CASE e.kind = "publish" ->
                /\ new_elements' = Insert(new_elements, PublishKey(e),
                                          RepoContentElement(e.uri, e.data))
                /\ applied' = applied \cup {RepoContentElement(e.uri, e.data)}
                /\ UNCHANGED <<pc, route>>
             [] e.kind = "update" ->
                IF ~Known(elements, new_elements, e.hash)
                THEN /\ route' = "fallback_update"
                     /\ pc' = "snapshot"
                     /\ new_elements' = EmptyElements
                     /\ applied' = {}
                ELSE /\ new_elements' = Insert(new_elements, UpdateKey(e),
                                               RepoContentElement(e.uri, e.data))
                     /\ applied' = applied \cup {RepoContentElement(e.uri, e.data)}
                     /\ UNCHANGED <<pc, route>>
             [] e.kind = "withdraw" ->
                IF ~Known(elements, new_elements, e.hash)
                THEN /\ route' = "fallback_withdraw"
                     /\ pc' = "snapshot"
                     /\ new_elements' = EmptyElements
                     /\ applied' = {}
                ELSE UNCHANGED <<pc, route, new_elements, applied>>
    /\ UNCHANGED <<erik_vars, http_vars, codec_vars, fetch_mapper, rrdp_state, response_etag, notification_file,
                   deltas, delta_idx, snapshot, result>>

\* the elements of the current delta are exhausted
end_of_delta ==
    /\ pc = "in_delta"
    /\ pc' = "deltas"
    /\ UNCHANGED <<erik_vars, http_vars, codec_vars, fetch_mapper, rrdp_state, locals, route, result>>

\* all deltas processed: derive the manifests of the staged elements and
\* merge both into the state; update returns Ok(true)
update_from_deltas_merge ==
    /\ pc = "deltas"
    /\ delta_idx = Len(deltas)
    /\ \E new_manifests \in manifests_from_elements(new_elements) :
        /\ elements' = add_new_elements(elements, new_elements)
        /\ manifests' = add_new_manifests(manifests, new_manifests)
    /\ result' = "ok_true"
    /\ pc' = "done"
    /\ UNCHANGED <<erik_vars, http_vars, codec_vars, fetch_mapper, session_id, serial, etag, locals, route>>

----------------------------------------------------------------------------
(* RrdpState::update_from_snapshot *)

\* an update_from_snapshot that assigns serial and session_id from the
\* notification file before the snapshot is fetched
update_from_snapshot_err_after_assign ==
    /\ pc = "snapshot"
    /\ result' = "err"
    /\ pc' = "done"
    /\ serial' = notification_file.serial
    /\ session_id' = notification_file.session_id
    /\ UNCHANGED <<erik_vars, http_vars, codec_vars, fetch_mapper, etag, elements, manifests, locals, route>>

\* get_snapshot_file fails: update returns Err
update_from_snapshot_err ==
    /\ pc = "snapshot"
    /\ result' = "err"
    /\ pc' = "done"
    /\ UNCHANGED <<erik_vars, http_vars, codec_vars, fetch_mapper, rrdp_state, locals, route>>

update_from_snapshot ==
    /\ pc = "snapshot"
    /\ \E snap \in Snapshots(fetch_mapper, notification_file) :
        \E new_manifests \in manifests_from_elements(elements_from_snapshot(snap)) :
            /\ snapshot' = snap
            /\ serial' = snap.serial
            /\ session_id' = snap.session_id
            /\ elements' = add_new_elements(elements, elements_from_snapshot(snap))
            /\ manifests' = add_new_manifests(manifests, new_manifests)
    /\ result' = "ok_true"
    /\ pc' = "done"
    /\ UNCHANGED <<erik_vars, http_vars, codec_vars, fetch_mapper, etag, response_etag, notification_file,
                   deltas, delta_idx, new_elements, el, el_count, applied,
                   route>>

----------------------------------------------------------------------------
(* The caller takes the result; the locals of the call are dropped *)

Return ==
    /\ pc = "done"
    /\ pc' = "idle"
    /\ response_etag' = "none"
    /\ notification_file' = NoFile
    /\ deltas' = <<>>
    /\ delta_idx' = 0
    /\ new_elements' = EmptyElements
    /\ el' = NoElement
    /\ el_count' = 0
    /\ snapshot' = NoSnapshot
    /\ applied' = {}
    /\ route' = "none"
    /\ result' = "none"
    /\ UNCHANGED <<erik_vars, http_vars, codec_vars, fetch_mapper, rrdp_state>>

----------------------------------------------------------------------------
(* The named-information route of the HTTP surface (src/src/main.rs)        *)

\* the {alg} segment of the path
Algs == {"sha-256", "sha-512"}

\* the {val} segment of the path: whether it is unpadded URL-safe base64,
\* the number of bytes it decodes to, and for 32 bytes the digest they
\* spell; 5 is a digest that no published object has
Vals ==
    {[valid |-> TRUE, len |-> 32, digest |-> h] : h \in Hashes \cup {5}}
    \cup {[valid |-> TRUE, len |-> 31, digest |-> -1],
          [valid |-> FALSE, len |-> 0, digest |-> -1]}

\* bad_hash, the unsupported-algorithm answer, not_found and der
Response(status, body) == [status |-> status, body |-> body]

\* a handler that looks the digest up before it tests the algorithm
named_information_digest_first(objects, alg, val) ==
    IF val.valid /\ val.len = 32
    THEN IF ContainsKey(objects, val.digest)
         THEN IF alg # "sha-256" THEN Response(400, -1)
              ELSE Response(200, objects[val.digest].data)
         ELSE Response(404, -1)
    ELSE Response(400, -1)

\* the handler of /.well-known/ni/{alg}/{val} over the object store
named_information(objects, alg, val) ==
    IF alg # "sha-256" THEN Response(400, -1)
    ELSE IF val.valid /\ val.len = 32
         THEN IF ContainsKey(objects, val.digest)
              THEN Response(200, objects[val.digest].data)
              ELSE Response(404, -1)
         ELSE Response(400, -1)

\* a request is served from the object store between two polls
serve_named_information ==
    /\ pc = "idle"
    /\ pc' = "serving"
    /\ \E alg \in Algs, val \in Vals :
        /\ request' = [alg |-> alg, val |-> val]
        /\ response' = named_information(elements, alg, val)
    /\ UNCHANGED <<erik_vars, codec_vars, fetch_mapper, rrdp_state, locals, route, result>>

\* the response is sent
respond ==
    /\ pc = "serving"
    /\ pc' = "idle"
    /\ request' = NoRequest
    /\ response' = NoResponse
    /\ UNCHANGED <<erik_vars, codec_vars, fetch_mapper, rrdp_state, locals, route, result>>

Next ==
    \/ create_err
    \/ create
    \/ update_err
    \/ update_unmodified
    \/ update_notification
    \/ get_delta_file_err
    \/ get_delta_file
    \/ delta_element
    \/ end_of_delta
    \/ update_from_deltas_merge
    \/ update_from_snapshot_err
    \/ update_from_snapshot
    \/ Return
    \/ serve_named_information
    \/ respond

Spec == Init /\ [][Next]_vars

----------------------------------------------------------------------------
(* The partitioner: ResolvedErikIndex::from_content (src/src/erik.rs)       *)

\* the digests of the manifests of the content
ErikHashes == 1 .. MaxRefs
\* authority key identifiers, written as numbers whose lowest byte is the
\* first byte of the identifier: two of them share the first byte 0x7A
ErikAkis == {122, 378, 123}
\* thisUpdate times
ErikTimes == {7, 8, 9}
IndexScope == "rpki.example.org"

\* the signed-object URI of a manifest whose EE certificate names a
\* location of 2^32 bytes
HugeUri == "rsync://h/r/...2^32.../a.mft"

\* the ManifestRefs that content.manifests() can hold: manifests of a few
\* bytes, and for every digest one manifest larger than 2^32 bytes
ErikRefs ==
    {ManifestRefNew(h, Usize(h + 2), a, 1, t, MftUri) :
        h \in ErikHashes, a \in ErikAkis, t \in ErikTimes}
    \cup {ManifestRefNew(h, <<65536, h + 2>>, 122, 1, 7, HugeUri) :
            h \in ErikHashes}

\* aki.as_slice()[0]
AkiFirstByte(aki) == aki % 256

\* a partition key taken from the second byte of the identifier
ErikPartitionKeySecondByte(mft_ref) == (mft_ref.aki \div 256) % 256

\* impl From<&ManifestRef> for ErikPartitionKey
ErikPartitionKey(mft_ref) == AkiFirstByte(mft_ref.aki)

\* a create_from_manifest_ref that leaves the ref out of the new partition
create_from_manifest_ref_empty(mft) ==
    [partition_time |-> mft.this_update, manifest_refs |-> {}]

\* ErikPartition::create_from_manifest_ref
create_from_manifest_ref(mft) ==
    [partition_time |-> mft.this_update, manifest_refs |-> {mft}]

\* an add_manifest_ref whose comparison never updates partition_time
add_manifest_ref_keeps_time(p, mft_ref) ==
    [partition_time |-> p.partition_time,
     manifest_refs |-> p.manifest_refs \cup {mft_ref}]

\* an add_manifest_ref that takes the time of the ref added last
add_manifest_ref_last_time(p, mft_ref) ==
    [partition_time |-> mft_ref.this_update,
     manifest_refs |-> p.manifest_refs \cup {mft_ref}]

\* ErikPartition::add_manifest_ref
add_manifest_ref(p, mft_ref) ==
    [partition_time |->
        IF p.partition_time > mft_ref.this_update
        THEN mft_ref.this_update ELSE p.partition_time,
     manifest_refs |-> p.manifest_refs \cup {mft_ref}]

\* the least partition_time of the partitions
MinPartitionTime(parts) ==
    CHOOSE t \in {parts[k].partition_time : k \in DOMAIN parts} :
        \A k \in DOMAIN parts : parts[k].partition_time >= t

\* partitions.values().map(|p| p.partition_time).max()
MaxPartitionTime(parts) ==
    CHOOSE t \in {parts[k].partition_time : k \in DOMAIN parts} :
        \A k \in DOMAIN parts : parts[k].partition_time <= t

\* the keys of content.elements(): the content holds every manifest under
\* its digest
ContentElementKeys == {r.hash : r \in content_manifests}

\* from_content is called with a content whose manifests are still unknown
InitErik ==
    /\ fetch_mapper = "file"
    /\ pc = "uninit"
    /\ session_id = "none"
    /\ serial = 0
    /\ etag = "none"
    /\ elements = EmptyElements
    /\ manifests = EmptyManifests
    /\ response_etag = "none"
    /\ notification_file = NoFile
    /\ deltas = <<>>
    /\ delta_idx = 0
    /\ new_elements = EmptyElements
    /\ el = NoElement
    /\ el_count = 0
    /\ snapshot = NoSnapshot
    /\ applied = {}
    /\ route = "none"
    /\ result = "none"
    /\ erik_pc = "loop"
    /\ content_manifests = {}
    /\ partitions = <<>>
    /\ index = NoIndex
    /\ request = NoRequest
    /\ response = NoResponse
    /\ codec_pc = "off"
    /\ wire_in = NoWire
    /\ decoded = NoValue
    /\ wire_out = NoWire

\* one iteration of `for mft_ref in content.manifests().values()`: the map
\* is keyed by digest, so the next value has a digest not seen before
from_content_loop ==
    /\ erik_pc = "loop"
    /\ Cardinality(content_manifests) < MaxRefs
    /\ \E mft_ref \in ErikRefs :
        /\ mft_ref.hash \notin ContentElementKeys
        /\ content_manifests' = content_manifests \cup {mft_ref}
        /\ LET partition_key == ErikPartitionKey(mft_ref)
           IN IF partition_key \in DOMAIN partitions
              THEN partitions' =
                    [partitions EXCEPT ![partition_key] =
                        add_manifest_ref(partitions[partition_key], mft_ref)]
              ELSE partitions' =
                    (partition_key :> create_from_manifest_ref(mft_ref))
                        @@ partitions
    /\ UNCHANGED <<http_vars, codec_vars, fetch_mapper, pc, rrdp_state, locals, route, result,
                   erik_pc, index>>

\* a return that wraps an index also around an empty map of partitions
from_content_return_always_some ==
    /\ erik_pc = "loop"
    /\ index' = [index_scope |-> IndexScope,
                 index_time |-> IF DOMAIN partitions = {} THEN 0
                                ELSE MaxPartitionTime(partitions),
                 partitions |-> partitions]
    /\ erik_pc' = "done"
    /\ UNCHANGED <<http_vars, codec_vars, fetch_mapper, pc, rrdp_state, locals, route, result,
                   content_manifests, partitions>>

\* the loop is over: None for no partition, else the index with the
\* greatest partition time
from_content_return ==
    /\ erik_pc = "loop"
    /\ index' = IF DOMAIN partitions = {} THEN NoIndex
                ELSE [index_scope |-> IndexScope,
                      index_time |-> MaxPartitionTime(partitions),
                      partitions |-> partitions]
    /\ erik_pc' = "done"
    /\ UNCHANGED <<http_vars, codec_vars, fetch_mapper, pc, rrdp_state, locals, route, result,
                   content_manifests, partitions>>

----------------------------------------------------------------------------
(* The on-wire index: impl From<&ResolvedErikIndex> for ErikIndex           *)

\* the content octets of the encoded SHA-256 algorithm identifier
Sha256Alg == 41

\* the last arc of ERIK_INDEX_OID, 1.3.6.1.4.1.41948.826
ErikIndexOid == 826

\* the sum of two lengths
AddUsize(a, b) ==
    <<a[1] + b[1] + (a[2] + b[2]) \div 65536, (a[2] + b[2]) % 65536>>

\* n as usize for an n below 2^31
FromUsize(n) == n[1] * 65536 + n[2]

\* n < 2^32
FitsU32(n) == n[1] < 65536

\* n < 2^8
FitsU8(n) == n[1] = 0 /\ n[2] < 256

\* n as u32: the low 32 bits
AsU32(n) == <<n[1] % 65536, n[2]>>

\* one encoded value: its tag, its content and the length of its content
Item(tag, val, len) == [tag |-> tag, val |-> val, len |-> len]

\* Result::Ok and Result::Err of a decoder
Ok(value) == [ok |-> TRUE, value |-> value]
Err == [ok |-> FALSE, value |-> <<>>]

\* encode_generalized_time
TimeItem(t) == Item("time", Usize(t), Usize(15))

\* an OBJECT IDENTIFIER, and DigestAlgorithm::encode
OidItem(o) == Item("oid", Usize(o), Usize(10))
AlgItem(a) == Item("alg", Usize(a), Usize(13))

\* an OCTET STRING of n bytes that spell h
OctetsItem(h, n) == Item("octets", Usize(h), Usize(n))

\* an INTEGER in the least number of bytes
IntItem(v) ==
    Item("int", v,
         Usize(IF v[1] = 0 THEN 2 ELSE IF v[1] < 65536 THEN 4 ELSE 5))

\* the index scope as IA5String
ScopeCode(scope) == IF scope = IndexScope THEN 1 ELSE 2
ScopeOf(code) == IF code = 1 THEN IndexScope ELSE "other.example.org"
ScopeItem(scope) == Item("ia5", Usize(ScopeCode(scope)), Usize(16))

\* the encoded location of a ManifestRef, and Rsync::from_bytes of it
UriCode(uri) == IF uri = MftUri THEN 1 ELSE IF uri = HugeUri THEN 3 ELSE 2
UriOf(code) == IF code = 1 THEN MftUri ELSE IF code = 3 THEN HugeUri ELSE CerUri
UriLen(uri) == IF uri = HugeUri THEN <<65536, 0>> ELSE Usize(17)
UriItem(uri) == Item("uri", Usize(UriCode(uri)), UriLen(uri))

\* Bytes::len: every item has two bytes of tag and length and its content
RECURSIVE ByteLen(_)
ByteLen(bytes) ==
    IF bytes = <<>> THEN Usize(0)
    ELSE AddUsize(AddUsize(Head(bytes).len, Usize(2)), ByteLen(Tail(bytes)))

\* a ManifestRef::encode that writes the manifest number where the size goes
ManifestRefEncodeSwapped(r) ==
    <<OctetsItem(r.hash, 32), IntItem(Usize(r.manifest_number)),
      OctetsItem(r.aki, 20), IntItem(r.size),
      TimeItem(r.this_update), UriItem(r.locations)>>

\* ManifestRef::encode: the fields in the order of the SEQUENCE
ManifestRefEncode(r) ==
    <<OctetsItem(r.hash, 32), IntItem(r.size),
      OctetsItem(r.aki, 20), IntItem(Usize(r.manifest_number)),
      TimeItem(r.this_update), UriItem(r.locations)>>

\* a take_u32 that keeps the low 32 bits of any INTEGER
take_u32_wrapping(item) == Ok(AsU32(item.val))

\* Constructed::take_u32
take_u32(item) == IF FitsU32(item.val) THEN Ok(item.val) ELSE Err

\* Hash::try_from(octets)
HashTryFrom(item) ==
    IF item.len = Usize(32) THEN Ok(FromUsize(item.val)) ELSE Err

\* ManifestRef::take_opt_from over the six values of one encoded ManifestRef
take_opt_from(items) ==
    LET hash == HashTryFrom(items[1])
        size == take_u32(items[2])
    IN IF ~hash.ok \/ ~size.ok THEN Err
       ELSE Ok(ManifestRefNew(hash.value, size.value,
                              FromUsize(items[3].val), FromUsize(items[4].val),
                              FromUsize(items[5].val),
                              UriOf(FromUsize(items[6].val))))

\* the while loop of ErikPartition::take_from: every ManifestRef of the
\* SEQUENCE is inserted into the HashSet
RECURSIVE TakeManifestRefs(_)
TakeManifestRefs(items) ==
    IF items = <<>> THEN Ok({})
    ELSE LET entry == take_opt_from(SubSeq(items, 1, 6))
             rest == TakeManifestRefs(SubSeq(items, 7, Len(items)))
         IN IF ~entry.ok \/ ~rest.ok THEN Err
            ELSE Ok({entry.value} \cup rest.value)

\* ErikPartition::take_from
ErikPartitionTakeFrom(bytes) ==
    IF bytes[2].val # Usize(Sha256Alg) THEN Err
    ELSE LET refs == TakeManifestRefs(SubSeq(bytes, 3, Len(bytes)))
         IN IF ~refs.ok THEN Err
            ELSE Ok([partition_time |-> FromUsize(bytes[1].val),
                     manifest_refs |-> refs.value])

\* #[derive(Eq, PartialEq)] of ManifestRef: all six fields are compared
ManifestRefEq(a, b) ==
    /\ a.hash = b.hash
    /\ a.size = b.size
    /\ a.aki = b.aki
    /\ a.manifest_number = b.manifest_number
    /\ a.this_update = b.this_update
    /\ a.locations = b.locations

\* impl Ord for ManifestRef: the digests are compared
ManifestRefCmp(a, b) ==
    IF a.hash < b.hash THEN "Less"
    ELSE IF a.hash > b.hash THEN "Greater" ELSE "Equal"

\* refs.sort(): ManifestRef orders by hash
RECURSIVE SortedRefs(_)
SortedRefs(refs) ==
    IF refs = {} THEN <<>>
    ELSE LET m == CHOOSE r \in refs : \A q \in refs : r.hash <= q.hash
         IN <<m>> \o SortedRefs(refs \ {m})

\* the orders of the refs with the greatest digest first
RefOrdersDescending(refs) ==
    {s \in [1..Cardinality(refs) -> refs] :
        /\ \A i, j \in DOMAIN s : i # j => s[i] # s[j]
        /\ \A i, j \in DOMAIN s : i < j => s[i].hash >= s[j].hash}

\* the orders refs.sort() can leave the refs of the HashSet in: the sort is
\* stable and the set iterates in any order, so refs of one digest come in
\* any order
RefOrders(refs) ==
    {s \in [1..Cardinality(refs) -> refs] :
        /\ \A i, j \in DOMAIN s : i # j => s[i] # s[j]
        /\ \A i, j \in DOMAIN s : i < j => s[i].hash <= s[j].hash}

\* captured.extend(mft_ref.encode()) for every ref of the sorted list
RECURSIVE EncodeRefs(_)
EncodeRefs(refs) ==
    IF refs = <<>> THEN <<>>
    ELSE ManifestRefEncode(Head(refs)) \o EncodeRefs(Tail(refs))

\* ErikPartitionEncoder::encode over the refs in the order of the sort
ErikPartitionEncoderFrom(p, refs) ==
    <<TimeItem(p.partition_time), AlgItem(Sha256Alg)>> \o EncodeRefs(refs)

\* ErikPartitionEncoder::from(p).to_captured(): partition time, hash
\* algorithm and the sorted manifest refs
ErikPartitionEncoder(p) ==
    ErikPartitionEncoderFrom(p, SortedRefs(p.manifest_refs))

\* one folding step of Hash::from_data over an item
ItemCode(item) ==
    (item.val[1] + 3 * item.val[2] + 5 * item.len[1] + 7 * item.len[2]) % 4093

\* Hash::from_data over the bytes of an encoded partition: a digest outside
\* the digests of the manifests of the content
RECURSIVE DigestFold(_, _)
DigestFold(bytes, acc) ==
    IF bytes = <<>> THEN acc
    ELSE DigestFold(Tail(bytes), (acc * 31 + ItemCode(Head(bytes))) % 4093)

PartitionHash(bytes) == 16 + DigestFold(bytes, 7)

\* ErikPartitionRef::new
ErikPartitionRefNew(partition_bytes) ==
    [hash |-> PartitionHash(partition_bytes),
     size |-> AsU32(ByteLen(partition_bytes))]

\* one ErikPartitionRef per value of index.partitions, then partitions.sort()
RECURSIVE SortedPartitionRefs(_, _)
SortedPartitionRefs(parts, keys) ==
    IF keys = {} THEN <<>>
    ELSE LET ref(k) == ErikPartitionRefNew(ErikPartitionEncoder(parts[k]))
             m == CHOOSE k \in keys : \A j \in keys : ref(k).hash <= ref(j).hash
         IN <<ref(m)>> \o SortedPartitionRefs(parts, keys \ {m})

\* ErikIndex::from(&ResolvedErikIndex)
ErikIndexFrom(ix) ==
    [index_scope |-> ix.index_scope,
     index_time |-> ix.index_time,
     partitions |-> SortedPartitionRefs(ix.partitions, DOMAIN ix.partitions)]

\* ErikPartitionRef::encode
ErikPartitionRefEncode(p) == <<OctetsItem(p.hash, 32), IntItem(p.size)>>

\* encode::iter(self.partitions.iter().map(|p| p.encode()))
RECURSIVE EncodePartitionRefs(_)
EncodePartitionRefs(prefs) ==
    IF prefs = <<>> THEN <<>>
    ELSE ErikPartitionRefEncode(Head(prefs)) \o EncodePartitionRefs(Tail(prefs))

\* ErikIndex::encode: the OID, then scope, time, hash algorithm and the
\* partitions in the order of self.partitions
ErikIndexEncode(ix) ==
    <<OidItem(ErikIndexOid), ScopeItem(ix.index_scope),
      TimeItem(ix.index_time), OidItem(Sha256Alg)>>
    \o EncodePartitionRefs(ix.partitions)

\* Constructed::take_opt_u8: no INTEGER next, an INTEGER of one byte, or an
\* error for any other INTEGER
take_opt_u8(item) ==
    IF item.tag # "int" THEN "none"
    ELSE IF FitsU8(item.val) THEN "some" ELSE "err"

\* the while loop of ErikIndex::take_from over the encoded PartitionRefs
RECURSIVE TakePartitionRefs(_)
TakePartitionRefs(items) ==
    IF items = <<>> THEN Ok(<<>>)
    ELSE LET identifier == take_opt_u8(items[1])
             body == IF identifier = "none" THEN items ELSE Tail(items)
             hash == HashTryFrom(body[1])
             size == take_u32(body[2])
             rest == TakePartitionRefs(SubSeq(body, 3, Len(body)))
         IN IF identifier = "err" \/ ~hash.ok \/ ~size.ok \/ ~rest.ok
            THEN Err
            ELSE Ok(<<[hash |-> hash.value, size |-> size.value]>>
                    \o rest.value)

\* ErikIndex::take_from
ErikIndexTakeFrom(bytes) ==
    IF bytes[1].val # Usize(ErikIndexOid) THEN Err
    ELSE IF bytes[4].val # Usize(Sha256Alg) THEN Err
    ELSE LET prefs == TakePartitionRefs(SubSeq(bytes, 5, Len(bytes)))
         IN IF ~prefs.ok THEN Err
            ELSE Ok([index_scope |-> ScopeOf(FromUsize(bytes[2].val)),
                     index_time |-> FromUsize(bytes[3].val),
                     partitions |-> prefs.value])

----------------------------------------------------------------------------
(* Encoding and decoding what the partitioner built                        *)
(* (tests erik_index_encode and erik_partition_encode_and_decode)          *)

\* ErikIndex::from(&erik).encode() and ErikPartitionEncoder::from(partition)
\* for every partition of the index
erik_index_encode ==
    /\ erik_pc = "done"
    /\ index # NoIndex
    /\ erik_pc' = "encoded"
    /\ wire_out' =
        [kind |-> "erik",
         bytes |-> [index |-> ErikIndexEncode(ErikIndexFrom(index)),
                    partitions |->
                        [k \in DOMAIN index.partitions |->
                            ErikPartitionEncoder(index.partitions[k])]]]
    /\ UNCHANGED <<http_vars, fetch_mapper, pc, rrdp_state, locals, route, result,
                   content_manifests, partitions, index,
                   codec_pc, wire_in, decoded>>

\* ErikIndex::take_from and ErikPartition::decode of the encoded bytes
erik_partition_encode_and_decode ==
    /\ erik_pc = "encoded"
    /\ erik_pc' = "decoded"
    /\ decoded' =
        Ok([index |-> ErikIndexTakeFrom(wire_out.bytes.index),
            partitions |->
                [k \in DOMAIN wire_out.bytes.partitions |->
                    ErikPartitionTakeFrom(wire_out.bytes.partitions[k])]])
    /\ UNCHANGED <<http_vars, fetch_mapper, pc, rrdp_state, locals, route, result,
                   content_manifests, partitions, index,
                   codec_pc, wire_in, wire_out>>

NextErik ==
    \/ from_content_loop
    \/ from_content_return
    \/ erik_index_encode
    \/ erik_partition_encode_and_decode

SpecErik == InitErik /\ [][NextErik]_vars

----------------------------------------------------------------------------
(* The codecs over encoded input (ErikPartition::decode,                   *)
(* ErikIndex::take_from, and encoding what they return)                    *)

\* the most ManifestRefs or PartitionRefs in an encoded input
MaxWireRefs == 2

\* digests, octet string lengths and INTEGER values of encoded inputs
WireHashes == {1, 2}
WireHashLens == {32, 31}
WireSizes == {Usize(3), Usize(4), <<65536, 0>>}

\* the six values of an encoded ManifestRef
WireManifestRefs ==
    {<<OctetsItem(h, n), IntItem(sz), OctetsItem(122, 20), IntItem(Usize(1)),
       TimeItem(7), UriItem(MftUri)>> :
        h \in WireHashes, n \in WireHashLens, sz \in WireSizes}

\* the concatenation of a sequence of encoded values
RECURSIVE Flatten(_)
Flatten(seqs) ==
    IF seqs = <<>> THEN <<>> ELSE Head(seqs) \o Flatten(Tail(seqs))

\* the sequences of at most n elements of S
SeqsAtMost(S, n) == UNION {[1..k -> S] : k \in 0..n}

\* encoded ErikPartitions
PartitionWires ==
    {<<TimeItem(7), AlgItem(a)>> \o Flatten(refs) :
        a \in {Sha256Alg, Sha256Alg + 1},
        refs \in SeqsAtMost(WireManifestRefs, MaxWireRefs)}

\* the legacy identifier of a PartitionRef: none (-1), or a partition key
WireIdentifiers == {-1, 5, 300}

\* the values of an encoded PartitionRef
WirePartitionRefs ==
    {(IF id = -1 THEN <<>> ELSE <<IntItem(Usize(id))>>)
     \o <<OctetsItem(h, n), IntItem(sz)>> :
        id \in WireIdentifiers, h \in WireHashes, n \in WireHashLens,
        sz \in {Usize(3), <<65536, 0>>}}

\* encoded ErikIndexes
IndexWires ==
    {<<OidItem(o), ScopeItem(IndexScope), TimeItem(7), OidItem(a)>>
     \o Flatten(prefs) :
        o \in {ErikIndexOid, ErikIndexOid + 1},
        a \in {Sha256Alg, Sha256Alg + 1},
        prefs \in SeqsAtMost(WirePartitionRefs, MaxWireRefs)}

InitCodec ==
    /\ fetch_mapper = "file"
    /\ pc = "uninit"
    /\ session_id = "none"
    /\ serial = 0
    /\ etag = "none"
    /\ elements = EmptyElements
    /\ manifests = EmptyManifests
    /\ response_etag = "none"
    /\ notification_file = NoFile
    /\ deltas = <<>>
    /\ delta_idx = 0
    /\ new_elements = EmptyElements
    /\ el = NoElement
    /\ el_count = 0
    /\ snapshot = NoSnapshot
    /\ applied = {}
    /\ route = "none"
    /\ result = "none"
    /\ erik_pc = "off"
    /\ content_manifests = {}
    /\ partitions = <<>>
    /\ index = NoIndex
    /\ request = NoRequest
    /\ response = NoResponse
    /\ codec_pc = "input"
    /\ wire_in \in
        {[kind |-> "partition", bytes |-> w] : w \in PartitionWires}
        \cup {[kind |-> "index", bytes |-> w] : w \in IndexWires}
    /\ decoded = NoValue
    /\ wire_out = NoWire

\* ErikPartition::decode
partition_decode ==
    /\ codec_pc = "input"
    /\ wire_in.kind = "partition"
    /\ decoded' = ErikPartitionTakeFrom(wire_in.bytes)
    /\ codec_pc' = "decoded"
    /\ UNCHANGED <<erik_vars, http_vars, fetch_mapper, pc, rrdp_state, locals,
                   route, result, wire_in, wire_out>>

\* ErikPartitionEncoder::from(&partition).to_captured()
partition_encode ==
    /\ codec_pc = "decoded"
    /\ wire_in.kind = "partition"
    /\ decoded.ok
    /\ \E refs \in RefOrders(decoded.value.manifest_refs) :
        wire_out' = [kind |-> "partition",
                     bytes |-> ErikPartitionEncoderFrom(decoded.value, refs)]
    /\ codec_pc' = "encoded"
    /\ UNCHANGED <<erik_vars, http_vars, fetch_mapper, pc, rrdp_state, locals,
                   route, result, wire_in, decoded>>

\* Mode::Der.decode(input, ErikIndex::take_from)
index_take_from ==
    /\ codec_pc = "input"
    /\ wire_in.kind = "index"
    /\ decoded' = ErikIndexTakeFrom(wire_in.bytes)
    /\ codec_pc' = "decoded"
    /\ UNCHANGED <<erik_vars, http_vars, fetch_mapper, pc, rrdp_state, locals,
                   route, result, wire_in, wire_out>>

\* index.encode().to_captured(Mode::Der)
index_encode ==
    /\ codec_pc = "decoded"
    /\ wire_in.kind = "index"
    /\ decoded.ok
    /\ wire_out' = [kind |-> "index", bytes |-> ErikIndexEncode(decoded.value)]
    /\ codec_pc' = "encoded"
    /\ UNCHANGED <<erik_vars, http_vars, fetch_mapper, pc, rrdp_state, locals,
                   route, result, wire_in, decoded>>

NextCodec ==
    \/ partition_decode
    \/ partition_encode
    \/ index_take_from
    \/ index_encode

SpecCodec == InitCodec /\ [][NextCodec]_vars

----------------------------------------------------------------------------
(* Properties of the object store and the manifests map *)

\* update has returned Ok(true)
Updated == pc = "done" /\ result = "ok_true"

C2_ManifestsBackedByStore ==
    \A a \in ManifestKeys(manifests) :
        /\ ContainsKey(elements, manifests[a].hash)
        /\ try_manifest_ref(elements[manifests[a].hash], TRUE) = manifests[a]

\* the ref with the greatest manifest_number among the refs that the object
\* store yields for AKI a
GreatestRef(els, a) ==
    CHOOSE r \in RefsForAki(els, a) :
        \A q \in RefsForAki(els, a) : q.manifest_number <= r.manifest_number

\* C3: after create and after every update that changed the object store,
\* the manifests map is the rebuild over the whole store: every AKI with an
\* extractable manifest maps to the ref with the greatest manifest_number
C3_ManifestsAreRebuild ==
    (pc = "done" /\ result \in {"created", "ok_true"}) =>
        \A a \in Akis :
            IF RefsForAki(elements, a) = {} THEN manifests[a] = NoRef
            ELSE manifests[a] = GreatestRef(elements, a)

----------------------------------------------------------------------------
(* Properties of a poll *)

\* the refs that manifest extraction yields for the elements of snapshot snap
SnapshotRefs(snap) ==
    UNION {RefsForAki(elements_from_snapshot(snap), a) : a \in Akis}

\* C4: after a poll that saw a different session_id and fetched the snapshot,
\* the manifests map holds only manifests found in the new snapshot
C4_SessionChangeDiscardsManifests ==
    (Updated /\ route = "session_change") =>
        \A a \in ManifestKeys(manifests) : manifests[a] \in SnapshotRefs(snapshot)

\* C5: after a delta path aborted by a Withdraw of an unknown digest, the
\* state equals the one that create yields for the same notification file
\* and snapshot
C5_FallbackEqualsCreate ==
    (Updated /\ route = "fallback_withdraw") =>
        /\ session_id = notification_file.session_id
        /\ serial = notification_file.serial
        /\ elements = elements_from_snapshot(snapshot)
        /\ manifests \in manifests_from_elements(elements_from_snapshot(snapshot))

\* C6: after a poll that succeeded on the delta path, the object store holds
\* every published or updated (uri, data) under the digest SHA-256(data)
C6_DeltaContentRetrievable ==
    (Updated /\ route = "deltas") =>
        \A o \in applied :
            /\ ContainsKey(elements, Hash(o.data))
            /\ elements[Hash(o.data)] = o

\* a step of the delta loop that processes one element
DeltaStep == pc = "in_delta" /\ el_count' = el_count + 1

\* C7: an Update or Withdraw aborts the delta path, and the poll goes on to
\* the snapshot path, exactly when its prior digest is neither a key of the
\* object store nor a key of the staging map
C7_UnknownPriorAborts ==
    [][DeltaStep =>
        ((pc' = "snapshot") <=>
            (/\ el'.kind \in {"update", "withdraw"}
             /\ el'.hash \notin ElementKeys(elements)
             /\ el'.hash \notin ElementKeys(new_elements)))]_vars

\* an Update of a digest that only the staging map knows was not aborted
C7_Witness ==
    /\ pc = "in_delta"
    /\ el.kind = "update"
    /\ el.hash \notin ElementKeys(elements)
    /\ ContainsKey(new_elements, el.hash)

\* the listed deltas form a contiguous chain that ends at the serial of nf
ChainComplete(nf) ==
    /\ nf.deltas # {}
    /\ \A n \in nf.deltas : n <= nf.serial
    /\ \A n \in Serials :
        (n <= nf.serial /\ \E m \in nf.deltas : m <= n) => n \in nf.deltas

\* C8: with the same session_id and another serial, the delta path is used
\* only for a contiguous chain ending at the serial of the notification
\* file; otherwise the poll takes the snapshot path
C8_DeltaPathOnlyForCompleteChain ==
    /\ (/\ route = "deltas"
        /\ pc \in {"deltas", "in_delta"}
        /\ session_id = notification_file.session_id
        /\ serial < notification_file.serial) =>
            ChainComplete(notification_file)
    /\ route = "fallback_gap" =>
        (~ChainComplete(notification_file) /\ pc \in {"snapshot", "done"})

\* the routes of a poll whose notification fetch returned data
DataRoutes ==
    {"same", "session_change", "deltas", "fallback_gap", "fallback_fetch",
     "fallback_update", "fallback_withdraw"}

\* C9: once the notification response is data, the stored etag is the etag of
\* the response, before any delta or snapshot is fetched and also when the
\* poll fails
C9_EtagStoredFirst ==
    route \in DataRoutes => etag = response_etag

\* a poll failed on both paths and the stored etag is the new one
C9_Witness ==
    /\ pc = "done"
    /\ result = "err"
    /\ route = "fallback_withdraw"
    /\ response_etag = "e1"
    /\ etag = "e1"

\* C10: a poll whose notification fetch returns NotModified returns
\* updated=false and leaves session_id, serial, etag, B and manifests as
\* they were
C10_NotModifiedNoChange ==
    [][(pc = "idle" /\ route' = "unmodified") =>
        (/\ result' = "ok_false"
         /\ UNCHANGED <<session_id, serial, etag, elements, manifests>>)]_vars

\* a NotModified poll of a state that holds an etag and objects
C10_Witness ==
    /\ pc = "done"
    /\ route = "unmodified"
    /\ etag = "e1"
    /\ ElementKeys(elements) # {}

----------------------------------------------------------------------------
(* Frame and failure properties of a poll *)

\* the notification fetch of a poll returned data naming the stored session
\* and serial
SameStatePoll ==
    /\ pc = "idle"
    /\ route' \in DataRoutes
    /\ notification_file'.session_id = session_id
    /\ notification_file'.serial = serial

\* C11: a poll whose notification is data with the stored (session_id,
\* serial) returns updated=false at once, without a delta or snapshot fetch,
\* and leaves session_id, serial, B and manifests unchanged
C11_SameStateNoChange ==
    [][SameStatePoll =>
        (/\ pc' = "done"
         /\ result' = "ok_false"
         /\ UNCHANGED <<session_id, serial, elements, manifests>>
         /\ UNCHANGED <<delta_idx, el_count, snapshot>>)]_vars

\* a same-state poll of a state that holds objects stored a new etag
C11_Witness ==
    /\ pc = "done"
    /\ route = "same"
    /\ result = "ok_false"
    /\ etag = "e1"
    /\ ElementKeys(elements) # {}

\* a step of update after which the poll is still running or has failed
UnfinishedStep ==
    /\ pc \in {"idle", "deltas", "in_delta", "snapshot"}
    /\ \/ pc' \in {"deltas", "in_delta", "snapshot"}
       \/ result' = "err"

\* C12: no step of a poll that is still running or ends in an error changes
\* session_id, serial, B or manifests, so a poll that returns an error
\* leaves them as they were before the poll
C12_ErrorLeavesState ==
    [][UnfinishedStep =>
        UNCHANGED <<session_id, serial, elements, manifests>>]_vars

\* a poll staged delta elements, fell back and failed on the snapshot
C12_Witness ==
    /\ pc = "done"
    /\ result = "err"
    /\ route \in {"fallback_update", "fallback_withdraw"}
    /\ el_count = MaxElements
    /\ ElementKeys(elements) # {}
    /\ serial # notification_file.serial

\* C13: no step removes a key from B
C13_NoEntryRemoved ==
    [][ElementKeys(elements) \subseteq ElementKeys(elements')]_vars

\* a delta poll whose last element was a Withdraw succeeded and the
\* withdrawn digest is still a key of B
C13_Witness ==
    /\ Updated
    /\ route = "deltas"
    /\ el.kind = "withdraw"
    /\ ContainsKey(elements, el.hash)

\* C14: the (uri, data) stored under a key of B never changes
C14_InsertIfAbsent ==
    [][\A h \in ElementKeys(elements) : elements'[h] = elements[h]]_vars

\* a delta poll succeeded whose staging map held other content for a key of B
C14_Witness ==
    /\ Updated
    /\ route = "deltas"
    /\ \E h \in ElementKeys(new_elements) :
        /\ ContainsKey(elements, h)
        /\ elements[h] # new_elements[h]

\* C15: each fetch of a delta file takes the next delta of the list, whose
\* serial is greater than the serial of every delta fetched before, and
\* applies nothing by itself
C15_DeltasAscending ==
    [][(pc = "deltas" /\ pc' = "in_delta") =>
        (/\ delta_idx' = delta_idx + 1
         /\ \A i \in 1 .. delta_idx : deltas[i] < deltas[delta_idx']
         /\ UNCHANGED <<elements, manifests, new_elements>>)]_vars

\* an Update of the second delta refers to an object that only the staging
\* map holds
C15_Witness ==
    /\ pc = "in_delta"
    /\ delta_idx = 2
    /\ deltas[1] < deltas[2]
    /\ el_count = 2
    /\ el.kind = "update"
    /\ el.hash \notin ElementKeys(elements)
    /\ ContainsKey(new_elements, el.hash)

----------------------------------------------------------------------------
(* Properties of the partitioner *)

MinOf(S) == CHOOSE x \in S : \A y \in S : x <= y
MaxOf(S) == CHOOSE x \in S : \A y \in S : x >= y

\* the thisUpdate times of the members of partition p
MemberTimes(p) == {r.this_update : r \in p.manifest_refs}

\* C18: in the index that from_content returns, every ManifestRef of the
\* partition under key k has k as the first byte of its AKI
C18_RefsMatchPartitionKey ==
    \A k \in DOMAIN index.partitions :
        \A r \in index.partitions[k].manifest_refs : AkiFirstByte(r.aki) = k

\* an index with two partitions, one of them holding refs of two AKIs
C18_Witness ==
    /\ erik_pc = "done"
    /\ Cardinality(DOMAIN index.partitions) = 2
    /\ \E k \in DOMAIN index.partitions :
        Cardinality({r.aki : r \in index.partitions[k].manifest_refs}) = 2

C16_Closure ==
    (erik_pc = "done" /\ index # NoIndex) =>
        /\ \A i \in DOMAIN ErikIndexFrom(index).partitions :
            ErikIndexFrom(index).partitions[i].hash \in ContentElementKeys
        /\ \A k \in DOMAIN index.partitions :
            \A r \in index.partitions[k].manifest_refs :
                r.hash \in ContentElementKeys

\* C21: from_content returns None exactly when the content has no manifest;
\* a returned index has a partition, and every partition has a ManifestRef
C21_NoIndexIffEmpty ==
    erik_pc = "done" =>
        /\ (index = NoIndex) <=> (content_manifests = {})
        /\ index # NoIndex =>
            /\ DOMAIN index.partitions # {}
            /\ \A k \in DOMAIN index.partitions :
                index.partitions[k].manifest_refs # {}

\* from_content returned None for a content without manifests
C21_Witness ==
    /\ erik_pc = "done"
    /\ content_manifests = {}
    /\ index = NoIndex

----------------------------------------------------------------------------
(* Properties of the named-information route *)

WellFormedDigest(val) == val.valid /\ val.len = 32

\* C28: the route answers 400 for an algorithm other than sha-256 whatever
\* the digest, 400 for a val that is not base64 of 32 bytes, 404 for a
\* digest without object, and 200 with the stored bytes otherwise
C28_RouteStatus ==
    pc = "serving" =>
        /\ request.alg # "sha-256" => response.status = 400
        /\ (request.alg = "sha-256" /\ ~WellFormedDigest(request.val)) =>
                response.status = 400
        /\ (/\ request.alg = "sha-256"
            /\ WellFormedDigest(request.val)
            /\ request.val.digest \notin ElementKeys(elements)) =>
                response.status = 404
        /\ (/\ request.alg = "sha-256"
            /\ WellFormedDigest(request.val)
            /\ request.val.digest \in ElementKeys(elements)) =>
                /\ response.status = 200
                /\ response.body = elements[request.val.digest].data

\* a request with another algorithm and a digest without object got 400
C28_Witness ==
    /\ pc = "serving"
    /\ request.alg = "sha-512"
    /\ WellFormedDigest(request.val)
    /\ request.val.digest \notin ElementKeys(elements)
    /\ ElementKeys(elements) # {}
    /\ response.status = 400

----------------------------------------------------------------------------
(* Properties of the codecs *)

\* the digests of the ManifestRefs of an encoded partition, in their order
PartitionWireDigests(bytes) ==
    [i \in 1..((Len(bytes) - 2) \div 6) |-> FromUsize(bytes[6 * i - 3].val)]

\* the sizes of the ManifestRefs of an encoded partition
PartitionWireSizes(bytes) ==
    [i \in 1..((Len(bytes) - 2) \div 6) |-> bytes[6 * i - 2].val]

\* the digests of the PartitionRefs of an encoded index without identifiers
IndexWireDigests(bytes) ==
    [i \in 1..((Len(bytes) - 4) \div 2) |-> FromUsize(bytes[2 * i + 3].val)]

Ascending(s) == \A i \in 1..(Len(s) - 1) : s[i] <= s[i + 1]
StrictlyAscending(s) == \A i \in 1..(Len(s) - 1) : s[i] < s[i + 1]

\* C22: the PartitionRefs in the bytes of ErikIndex::encode are strictly
\* ascending by digest, also for an ErikIndex that take_from returned
C22_IndexRefsStrictlyAscending ==
    (codec_pc = "encoded" /\ wire_out.kind = "index") =>
        StrictlyAscending(IndexWireDigests(wire_out.bytes))

\* C23: the ManifestRefs in the bytes of ErikPartitionEncoder are strictly
\* ascending by digest for any ErikPartition, no two neighbours being equal
C23_ManifestRefsStrictlyAscending ==
    (codec_pc = "encoded" /\ wire_out.kind = "partition") =>
        StrictlyAscending(PartitionWireDigests(wire_out.bytes))

\* an encoded partition with the SHA-256 algorithm, digests of 32 bytes and
\* sizes below 2^32
PartitionFieldsWellFormed(bytes) ==
    /\ bytes[2].val = Usize(Sha256Alg)
    /\ \A i \in 1..((Len(bytes) - 2) \div 6) :
        /\ bytes[6 * i - 3].len = Usize(32)
        /\ PartitionWireSizes(bytes)[i][1] < 65536

\* C24 as stated: decoding and encoding again an encoded partition whose
\* refs are sorted ascending by digest with sizes below 2^32 gives back the
\* input bytes
C24_RoundTripAscending ==
    (/\ codec_pc = "encoded"
     /\ wire_in.kind = "partition"
     /\ PartitionFieldsWellFormed(wire_in.bytes)
     /\ Ascending(PartitionWireDigests(wire_in.bytes))) =>
        wire_out.bytes = wire_in.bytes

\* C24: decoding an encoded partition whose refs are strictly ascending by
\* digest (no two refs of one digest) with sizes below 2^32 succeeds, and
\* encoding the result gives back the input bytes
C24_RoundTripStrictlyAscending ==
    (/\ wire_in.kind = "partition"
     /\ PartitionFieldsWellFormed(wire_in.bytes)
     /\ StrictlyAscending(PartitionWireDigests(wire_in.bytes))) =>
        /\ codec_pc = "decoded" => decoded.ok
        /\ codec_pc = "encoded" => wire_out.bytes = wire_in.bytes

\* a partition of two refs came back byte for byte
C24_Witness ==
    /\ codec_pc = "encoded"
    /\ wire_in.kind = "partition"
    /\ Len(PartitionWireDigests(wire_in.bytes)) = 2
    /\ StrictlyAscending(PartitionWireDigests(wire_in.bytes))
    /\ wire_out.bytes = wire_in.bytes

\* the PartitionRefs of an encoded index read by the schema of the earlier
\* draft: an optional identifier of the 10-bit key domain, a digest of 32
\* bytes and a size below 2^32
RECURSIVE LegacyPartitionRefs(_)
LegacyPartitionRefs(items) ==
    IF items = <<>> THEN Ok(<<>>)
    ELSE LET legacy == items[1].tag = "int"
             body == IF legacy THEN Tail(items) ELSE items
             rest == LegacyPartitionRefs(SubSeq(body, 3, Len(body)))
         IN IF /\ legacy => (items[1].val[1] = 0 /\ items[1].val[2] < 1024)
               /\ body[1].len = Usize(32)
               /\ body[2].val[1] < 65536
               /\ rest.ok
            THEN Ok(<<[hash |-> FromUsize(body[1].val), size |-> body[2].val]>>
                    \o rest.value)
            ELSE Err

\* C25: decoding an index whose PartitionRefs carry the legacy identifier
\* succeeds for every identifier of the 10-bit key domain and yields the
\* (hash, size) refs of the input; encoding it again emits no identifier
C25_LegacyIdentifierAccepted ==
    (/\ codec_pc \in {"decoded", "encoded"}
     /\ wire_in.kind = "index"
     /\ wire_in.bytes[1].val = Usize(ErikIndexOid)
     /\ wire_in.bytes[4].val = Usize(Sha256Alg)
     /\ LegacyPartitionRefs(SubSeq(wire_in.bytes, 5, Len(wire_in.bytes))).ok) =>
        /\ decoded.ok
        /\ decoded.value.partitions =
            LegacyPartitionRefs(SubSeq(wire_in.bytes, 5, Len(wire_in.bytes))).value
        /\ codec_pc = "encoded" =>
            \A i \in DOMAIN wire_out.bytes : i > 4 =>
                wire_out.bytes[i].tag = (IF i % 2 = 1 THEN "octets" ELSE "int")

\* C26: every partition of the index has exactly one PartitionRef in the
\* on-wire index, whose digest is the digest of the partition's encoded
\* bytes and whose size is their length, untruncated
C26_PartitionRefMatchesBytes ==
    erik_pc = "encoded" =>
        LET prefs == ErikIndexFrom(index).partitions
        IN /\ Len(prefs) = Cardinality(DOMAIN index.partitions)
           /\ \A k \in DOMAIN index.partitions :
                \E i \in DOMAIN prefs :
                    /\ prefs[i].hash = PartitionHash(wire_out.bytes.partitions[k])
                    /\ prefs[i].size = ByteLen(wire_out.bytes.partitions[k])

\* some digest of the encoded input is not 32 bytes long
WireHashInvalid(bytes, first) ==
    \E i \in first..Len(bytes) :
        bytes[i].tag = "octets" /\ bytes[i].len \notin {Usize(32), Usize(20)}

\* some size of the encoded input, the INTEGER after a digest, is 2^32 or more
WireSizeTooLarge(bytes, first) ==
    \E i \in first..(Len(bytes) - 1) :
        /\ bytes[i].tag = "octets"
        /\ bytes[i + 1].tag = "int"
        /\ bytes[i + 1].val[1] >= 65536

\* C29: ErikIndex::take_from fails on another OID than ERIK_INDEX_OID or
\* another hash algorithm than SHA-256, ErikPartition::take_from on another
\* hash algorithm, and both on a digest that is not 32 bytes or a size of
\* 2^32 or more; a failed decoder yields no value
C29_StrictDecoding ==
    codec_pc = "decoded" =>
        /\ (/\ wire_in.kind = "index"
            /\ \/ wire_in.bytes[1].val # Usize(ErikIndexOid)
               \/ wire_in.bytes[4].val # Usize(Sha256Alg)
               \/ WireHashInvalid(wire_in.bytes, 5)
               \/ WireSizeTooLarge(wire_in.bytes, 5)) =>
                decoded = Err
        /\ (/\ wire_in.kind = "partition"
            /\ \/ wire_in.bytes[2].val # Usize(Sha256Alg)
               \/ WireHashInvalid(wire_in.bytes, 3)
               \/ WireSizeTooLarge(wire_in.bytes, 3)) =>
                decoded = Err

\* an index that is in order but for one size of 2^32 was refused
C29_Witness ==
    /\ codec_pc = "decoded"
    /\ wire_in.kind = "index"
    /\ wire_in.bytes[1].val = Usize(ErikIndexOid)
    /\ wire_in.bytes[4].val = Usize(Sha256Alg)
    /\ ~WireHashInvalid(wire_in.bytes, 5)
    /\ WireSizeTooLarge(wire_in.bytes, 5)
    /\ decoded = Err

\* C30: encoding and decoding a partition that the partitioner built, all
\* sizes below 2^32, succeeds and yields the same partition_time and the
\* same set of refs; encoding and decoding the ErikIndex of the resolved
\* index yields the same scope, index_time and sequence of PartitionRefs
C30_EncodeDecodeRoundTrip ==
    erik_pc = "decoded" =>
        /\ \A k \in DOMAIN index.partitions :
            (\A r \in index.partitions[k].manifest_refs : r.size[1] < 65536) =>
                /\ decoded.value.partitions[k].ok
                /\ decoded.value.partitions[k].value.partition_time =
                    index.partitions[k].partition_time
                /\ decoded.value.partitions[k].value.manifest_refs =
                    index.partitions[k].manifest_refs
        /\ decoded.value.index.ok
        /\ decoded.value.index.value.index_scope = index.index_scope
        /\ decoded.value.index.value.index_time = index.index_time
        /\ decoded.value.index.value.partitions =
            ErikIndexFrom(index).partitions

\* a partition of two refs and an index of two partitions came back
C30_Witness ==
    /\ erik_pc = "decoded"
    /\ Cardinality(DOMAIN index.partitions) = 2
    /\ \E k \in DOMAIN index.partitions :
        /\ Cardinality(index.partitions[k].manifest_refs) = 2
        /\ \A r \in index.partitions[k].manifest_refs : r.size[1] < 65536
        /\ decoded.value.partitions[k].ok
        /\ decoded.value.partitions[k].value.manifest_refs =
            index.partitions[k].manifest_refs
    /\ decoded.value.index.ok
    /\ Len(decoded.value.index.value.partitions) = 2

----------------------------------------------------------------------------
(* Properties of ManifestRef as a value *)

\* C31: two ManifestRefs of one digest are equal, so the ref set of a
\* partition never holds two members of one digest, and two refs compare
\* Equal under the ordering exactly when they are equal
C31_EqualityByDigest ==
    (codec_pc = "decoded" /\ wire_in.kind = "partition" /\ decoded.ok) =>
        \A a, b \in decoded.value.manifest_refs :
            /\ a.hash = b.hash => ManifestRefEq(a, b)
            /\ (ManifestRefCmp(a, b) = "Equal") <=> ManifestRefEq(a, b)

----------------------------------------------------------------------------
(* Properties of the rebuild of the manifests map *)

\* no manifest can be extracted from the element: its URI does not end in
\* .mft, its bytes are no manifest, or the EE certificate has no AKI
ExtractionFails(rce) ==
    \/ ~EndsWithMft(rce.uri)
    \/ ~MftDecodes(rce.data)
    \/ ~MftHasAki(rce.data)

\* the elements that the step of create or update merges into the store
Incoming ==
    IF pc \in {"uninit", "snapshot"} THEN elements_from_snapshot(snapshot')
    ELSE new_elements

\* a step of create or update that merges elements into the store
Rebuild ==
    /\ pc \in {"uninit", "snapshot", "deltas"}
    /\ pc' = "done"
    /\ <<elements, manifests, session_id, serial>>'
        # <<elements, manifests, session_id, serial>>

\* C32: an element whose manifest extraction fails is skipped by the rebuild
\* of the manifests map: it is in the store afterwards, no entry of the
\* manifests map comes from it, and create or update does not return an
\* error for it
C32_FailedExtractionSkipped ==
    [][Rebuild =>
        /\ result' \in {"created", "ok_true"}
        /\ \A h \in Hashes :
            (Incoming[h] # NoEntry /\ ExtractionFails(Incoming[h])) =>
                /\ elements'[h] # NoEntry
                /\ elements[h] = NoEntry => elements'[h] = Incoming[h]
        /\ \A a \in Akis :
            manifests'[a] # NoRef =>
                /\ EndsWithMft(manifests'[a].locations)
                /\ \E d \in Data :
                    /\ Hash(d) = manifests'[a].hash
                    /\ MftDecodes(d)
                    /\ MftHasAki(d)]_vars

\* create succeeded on a snapshot of an undecodable manifest and a manifest
\* without AKI: both are stored and the manifests map is empty
C32_Witness ==
    /\ pc = "done"
    /\ result = "created"
    /\ elements[Hash(3)] = RepoContentElement(MftUri, 3)
    /\ elements[Hash(4)] = RepoContentElement(MftUri, 4)
    /\ \A a \in Akis : manifests[a] = NoRef

----------------------------------------------------------------------------
(* Properties of the encodings as functions of the manifest set *)

\* the partitions of a set of refs, told from the set alone
PartitionsOf(refs) ==
    [k \in {AkiFirstByte(r.aki) : r \in refs} |->
        [partition_time |->
            MinOf({r.this_update : r \in {q \in refs : AkiFirstByte(q.aki) = k}}),
         manifest_refs |-> {q \in refs : AkiFirstByte(q.aki) = k}]]

\* the resolved index of a set of refs, told from the set alone
IndexOf(refs) ==
    [index_scope |-> IndexScope,
     index_time |->
        MaxOf({PartitionsOf(refs)[k].partition_time :
                 k \in DOMAIN PartitionsOf(refs)}),
     partitions |-> PartitionsOf(refs)]

\* C33: the encoded partitions and the encoded index are a function of the
\* set of manifest refs: in whatever order from_content met the refs, the
\* bytes are those that the set alone determines
C33_EncodingIndependentOfOrder ==
    erik_pc = "encoded" =>
        /\ DOMAIN wire_out.bytes.partitions = DOMAIN PartitionsOf(content_manifests)
        /\ \A k \in DOMAIN wire_out.bytes.partitions :
            wire_out.bytes.partitions[k] =
                ErikPartitionEncoder(PartitionsOf(content_manifests)[k])
        /\ wire_out.bytes.index =
            ErikIndexEncode(ErikIndexFrom(IndexOf(content_manifests)))

\* an index was encoded whose partition holds three refs of three times,
\* which the loop can have met in six orders
C33_Witness ==
    /\ erik_pc = "encoded"
    /\ \E k \in DOMAIN index.partitions :
        /\ Cardinality(index.partitions[k].manifest_refs) = 3
        /\ Cardinality(MemberTimes(index.partitions[k])) = 3

----------------------------------------------------------------------------
(* Properties of the stored session and serial *)

\* C34: when a poll returns Ok(true), by the delta path or by the snapshot
\* path, the stored session_id and serial are those of the notification
\* file that the poll processed
C34_StoredStateIsNotification ==
    (pc = "done" /\ result = "ok_true") =>
        /\ session_id = notification_file.session_id
        /\ serial = notification_file.serial


\* the serials of the deltas that the poll applied
AppliedSerials == {deltas[i] : i \in 1..delta_idx}

\* C35: a poll that completes on the delta path from stored serial s with a
\* notification of serial n > s applied exactly the deltas s+1..n: none is
\* missing between the stored state and the first delta, and no delta of
\* serial s or less is applied again
C35_DeltasFromStoredSerial ==
    (/\ pc = "done"
     /\ route = "deltas"
     /\ result = "ok_true"
     /\ notification_file.serial > serial) =>
        AppliedSerials = (serial + 1)..notification_file.serial


----------------------------------------------------------------------------
(* Properties of the manifests map over a sequence of polls *)

\* C36: an AKI of the manifests map is never removed and its
\* manifest_number never decreases: an entry is replaced only by a
\* ManifestRef of a strictly greater manifest_number
C36_ManifestNumberNeverDecreases ==
    [][\A a \in Akis :
        manifests[a] # NoRef =>
            /\ manifests'[a] # NoRef
            /\ manifests'[a].manifest_number >= manifests[a].manifest_number
            /\ manifests'[a] # manifests[a] =>
                manifests'[a].manifest_number > manifests[a].manifest_number]_vars

\* a poll took the snapshot path with a snapshot that holds manifest
\* number 1 only, and the stored manifest number 2 is still there
C36_Witness ==
    /\ pc = "done"
    /\ result = "ok_true"
    /\ snapshot.elements = <<RepoContentElement(MftUri, 1)>>
    /\ manifests[MftAki(2)].manifest_number = 2


----------------------------------------------------------------------------
(* Properties of the partitioning *)

\* C37: from_content partitions its input exactly: every input ManifestRef
\* is in exactly one partition, the partitions together hold the input set,
\* and there are as many partitions as distinct first AKI bytes in the
\* input, at most 256
C37_PartitionsExactly ==
    (erik_pc = "done" /\ index # NoIndex) =>
        /\ \A r \in content_manifests :
            Cardinality({k \in DOMAIN index.partitions :
                            r \in index.partitions[k].manifest_refs}) = 1
        /\ UNION {index.partitions[k].manifest_refs :
                    k \in DOMAIN index.partitions} = content_manifests
        /\ Cardinality(DOMAIN index.partitions) =
            Cardinality({AkiFirstByte(r.aki) : r \in content_manifests})
        /\ Cardinality(DOMAIN index.partitions) <= 256

\* three manifests of three AKIs, two of which share the first byte, came
\* out as two partitions
C37_Witness ==
    /\ erik_pc = "done"
    /\ Cardinality(content_manifests) = 3
    /\ Cardinality({r.aki : r \in content_manifests}) = 3
    /\ Cardinality(DOMAIN index.partitions) = 2

====
